---------------------------- MODULE Spec2Model ----------------------------
(***************************************************************************)
(* Model of the browser client of the speech-to-text application:          *)
(*   src/frontend/src/components/AudioRecorder.jsx  (the recorder widget)  *)
(*   src/unnamed/part_001                           (App, transcript list) *)
(*                                                                         *)
(* The state is the React state and refs of the AudioRecorder component,   *)
(* the browser objects it creates (microphone streams, MediaRecorder       *)
(* instances, interval timers), the asynchronous work in flight            *)
(* (getUserMedia promises, queued MediaRecorder stop tasks, upload         *)
(* requests) and the transcript list of App.                               *)
(*                                                                         *)
(* Environment assumptions, from the browser APIs the code calls:          *)
(*  - a state update is rendered before the next event is delivered, so a  *)
(*    click always runs the handler of the buttons as currently rendered;  *)
(*  - mediaRecorder.start() is called without a timeslice (line 64), so a  *)
(*    recorder delivers its data in one dataavailable event, fired in the  *)
(*    same queued task as, and right before, its stop event;               *)
(*  - MediaRecorder.stop() makes the recorder inactive at once and queues  *)
(*    that task; queued stop tasks run in FIFO order;                      *)
(*  - promises (getUserMedia, fetch) settle at any later time.             *)
(***************************************************************************)
EXTENDS Naturals, Sequences, FiniteSets

\* Bounds of the model.
MaxSessions == 2
MaxPendingStarts == 2
MaxTicks == 1
MaxInFlight == 2
MaxUploads == 1

VARIABLES
    isRecording,        \* useState(false), line 9
    isProcessing,       \* useState(false), line 10
    error,              \* useState(null), line 11: "null" or an error class
    recordedBlob,       \* useState(null), line 12
    recordingDuration,  \* useState(0), line 13
    mediaRecorder,      \* useRef(null), line 14: 0 (null) or a recorder id
    audioChunks,        \* useRef([]), line 15: the chunks pushed so far
    recordingTimer,     \* useRef(null), line 16: 0 (null) or an interval id
    recState,           \* recorder id -> "none" | "recording" | "inactive"
    liveStreams,        \* microphone streams whose tracks are not stopped
    liveTimers,         \* interval ids not cleared
    pendingStarts,      \* startRecording calls awaiting getUserMedia
    stopQueue,          \* recorders whose dataavailable+stop task is queued
    inFlight,           \* the number of upload requests sent, not yet answered
    lastRequest,        \* history: the blob and the duration when the
                        \* request in flight was sent
    transcripts,        \* App: useState([]), part_001 line 7
    serverNextId,       \* the Gateway's next transcript identifier
    responses,          \* records the Gateway stored and answered an upload
                        \* with, on their way to the client
    fetchPhase,         \* App.fetchTranscripts: "sent" | "answered" | "done"
    fetchData,          \* the list in the answer to fetchTranscripts
    loading,            \* App: useState(false), part_001 line 8
    appError,           \* App: useState(null), part_001 line 9
    lastAct,            \* history: the operation that made the last step
    lastFailure,        \* history: the failure the last step delivered to
                        \* uploadAndTranscribe, if it delivered one
    discardedClean      \* history: discard() ran and no recording was
                        \* started or finalized since

vars == <<isRecording, isProcessing, error, recordedBlob, recordingDuration,
          mediaRecorder, audioChunks, recordingTimer, recState, liveStreams,
          liveTimers, pendingStarts, stopQueue, inFlight, transcripts,
          serverNextId, lastAct, discardedClean, lastRequest, responses,
          fetchPhase, fetchData, loading, appError, lastFailure>>

\* The state of App's list fetch and of the answers in transit.
appVars == <<responses, fetchPhase, fetchData, loading, appError>>

\* The React state and refs of the component.
compVars == <<isRecording, isProcessing, error, recordedBlob,
              recordingDuration, mediaRecorder, audioChunks, recordingTimer>>

Sessions == 1 .. MaxSessions

\* recordedBlob: null, or a Blob holding the concatenation of chunks.
NullBlob == [present |-> FALSE, data |-> << >>]
Blob(chunks) == [present |-> TRUE, data |-> chunks]

\* The number of MediaRecorder instances (and streams, and timers) created.
Created == Cardinality({r \in Sessions : recState[r] # "none"})

\* The chunk a recorder delivers: tagged with the recorder that produced it.
Chunk(r, size) == [sess |-> r, size |-> size]

\* lastRequest while no request is in flight.
NoRequest == [body |-> << >>, dur |-> 0]

\* No failure was delivered by the last step.
NoFailure == [kind |-> "none", detail |-> {}]

\* Init is the state after App has mounted: its effect (part_001 lines
\* 12-14) has called fetchTranscripts, which has set loading and sent the
\* list request (lines 18-19).
Init ==
    /\ isRecording = FALSE
    /\ isProcessing = FALSE
    /\ error = "null"
    /\ recordedBlob = NullBlob
    /\ recordingDuration = 0
    /\ mediaRecorder = 0
    /\ audioChunks = << >>
    /\ recordingTimer = 0
    /\ recState = [r \in Sessions |-> "none"]
    /\ liveStreams = {}
    /\ liveTimers = {}
    /\ pendingStarts = 0
    /\ stopQueue = << >>
    /\ inFlight = 0
    /\ transcripts = << >>
    /\ serverNextId = 1
    /\ lastAct = "init"
    /\ discardedClean = FALSE
    /\ lastRequest = NoRequest
    /\ lastFailure = NoFailure
    /\ responses = {}
    /\ fetchPhase = "sent"
    /\ fetchData = << >>
    /\ loading = TRUE
    /\ appError = "null"


\* Everything outside the component's own state and refs.
envVars == <<recState, liveStreams, liveTimers, pendingStarts, stopQueue,
             inFlight, transcripts, serverNextId, responses, fetchPhase,
             fetchData, loading, appError>>

-----------------------------------------------------------------------------
(* Rendering, lines 178-209: which button is shown and enabled.  A Blob     *)
(* object is truthy whatever its size, so !recordedBlob tests presence.     *)

StartButton == ~recordedBlob.present /\ ~isRecording /\ ~isProcessing

StopButton == ~recordedBlob.present /\ isRecording /\ ~isProcessing

\* Mutant of TranscribeButton: the button is not disabled during an upload.
TranscribeButtonNotDisabled == recordedBlob.present

TranscribeButton == recordedBlob.present /\ ~isProcessing

DiscardButton == recordedBlob.present /\ ~isProcessing

-----------------------------------------------------------------------------
(* startRecording, lines 18-84.                                             *)

\* Lines 18-28: the call runs up to `await getUserMedia(...)` and suspends.
startRecording ==
    /\ pendingStarts < MaxPendingStarts
    /\ pendingStarts' = pendingStarts + 1
    /\ UNCHANGED compVars
    /\ UNCHANGED <<recState, liveStreams, liveTimers, stopQueue, inFlight,
                   transcripts, serverNextId>>
    /\ UNCHANGED appVars

\* Lines 30-72: getUserMedia resolved with a new stream; the rest of the
\* try block runs to its end.  The new stream, recorder and interval get
\* the next unused id.
startRecordingGranted ==
    /\ pendingStarts > 0
    /\ Created < MaxSessions
    /\ LET r == Created + 1 IN
        /\ pendingStarts' = pendingStarts - 1
        /\ liveStreams' = liveStreams \cup {r}                 \* line 22
        /\ audioChunks' = << >>                                  \* line 33
        /\ recordedBlob' = NullBlob                              \* line 34
        /\ recordingDuration' = 0                                \* line 35
        /\ mediaRecorder' = r                                    \* line 38
        /\ recState' = [recState EXCEPT ![r] = "recording"]      \* line 64
        /\ isRecording' = TRUE                                   \* line 65
        /\ recordingTimer' = r                                   \* line 68
        /\ liveTimers' = liveTimers \cup {r}                    \* line 68
    /\ UNCHANGED <<isProcessing, error, stopQueue, inFlight, transcripts,
                   serverNextId>>
    /\ UNCHANGED appVars

\* Lines 76-82: the error class shown for a rejected getUserMedia.
StartErrorNames == {"NotAllowedError", "NotFoundError", "OtherError"}

startErrorOf(name) ==
    IF name = "NotAllowedError" THEN "PermissionDenied"
    ELSE IF name = "NotFoundError" THEN "DeviceNotFound"
    ELSE "StartFailed"

\* Mutant of startRecordingRejected: the catch block also clears the buffer.
startRecordingRejectedClears(name) ==
    /\ pendingStarts > 0
    /\ pendingStarts' = pendingStarts - 1
    /\ error' = startErrorOf(name)
    /\ recordedBlob' = NullBlob
    /\ recordingDuration' = 0
    /\ UNCHANGED <<isRecording, isProcessing, mediaRecorder, audioChunks,
                   recordingTimer>>
    /\ UNCHANGED <<recState, liveStreams, liveTimers, stopQueue, inFlight,
                   transcripts, serverNextId>>
    /\ UNCHANGED appVars

\* Lines 74-83: getUserMedia rejected; the catch block runs.
startRecordingRejected(name) ==
    /\ pendingStarts > 0
    /\ pendingStarts' = pendingStarts - 1
    /\ error' = startErrorOf(name)
    /\ UNCHANGED <<isRecording, isProcessing, recordedBlob, recordingDuration,
                   mediaRecorder, audioChunks, recordingTimer>>
    /\ UNCHANGED <<recState, liveStreams, liveTimers, stopQueue, inFlight,
                   transcripts, serverNextId>>
    /\ UNCHANGED appVars

-----------------------------------------------------------------------------
(* stopRecording, lines 86-94, and the recorder's event handlers.           *)

\* Mutant of stopRecording: the recorder's state is not tested before stop().
stopRecordingNoStateTest ==
    /\ IF mediaRecorder # 0
       THEN /\ recState' = [recState EXCEPT ![mediaRecorder] = "inactive"]
            /\ stopQueue' = Append(stopQueue, mediaRecorder)
       ELSE UNCHANGED <<recState, stopQueue>>
    /\ isRecording' = FALSE
    /\ UNCHANGED <<isProcessing, error, recordedBlob, recordingDuration,
                   mediaRecorder, audioChunks, recordingTimer>>
    /\ UNCHANGED <<liveStreams, liveTimers, pendingStarts, inFlight,
                   transcripts, serverNextId>>
    /\ UNCHANGED appVars

stopRecording ==
    /\ IF mediaRecorder # 0 /\ recState[mediaRecorder] # "inactive"
       THEN /\ recState' = [recState EXCEPT ![mediaRecorder] = "inactive"]
            /\ stopQueue' = Append(stopQueue, mediaRecorder)     \* line 90
       ELSE UNCHANGED <<recState, stopQueue>>
    /\ isRecording' = FALSE                                      \* line 93
    /\ UNCHANGED <<isProcessing, error, recordedBlob, recordingDuration,
                   mediaRecorder, audioChunks, recordingTimer>>
    /\ UNCHANGED <<liveStreams, liveTimers, pendingStarts, inFlight,
                   transcripts, serverNextId>>
    /\ UNCHANGED appVars

\* Lines 42-46: audioChunks.current after a dataavailable event.
ondataavailable(chunks, data) ==
    IF data.size > 0 THEN Append(chunks, data) ELSE chunks

\* The sizes a recorder's data may have: nothing gathered, or some audio.
ChunkSizes == {0, 1}

\* The queued task of recorder r's stop(): dataavailable (lines 42-46), then
\* onstop (lines 48-61), whose closure holds the stream of recorder r.
onstop(r, size) ==
    /\ stopQueue # << >>
    /\ r = Head(stopQueue)
    /\ stopQueue' = Tail(stopQueue)
    /\ audioChunks' = ondataavailable(audioChunks, Chunk(r, size))
    /\ recordedBlob' = Blob(audioChunks')                        \* lines 50-51
    /\ liveStreams' = liveStreams \ {r}                          \* line 54
    /\ IF recordingTimer # 0                                     \* line 57
       THEN /\ liveTimers' = liveTimers \ {recordingTimer}       \* line 58
            /\ recordingTimer' = 0                               \* line 59
       ELSE UNCHANGED <<liveTimers, recordingTimer>>
    /\ UNCHANGED <<isRecording, isProcessing, error, recordingDuration,
                   mediaRecorder>>
    /\ UNCHANGED <<recState, pendingStarts, inFlight, transcripts,
                   serverNextId>>
    /\ UNCHANGED appVars

\* Lines 68-70: one firing of a live interval.
timerTick(t) ==
    /\ t \in liveTimers
    /\ recordingDuration < MaxTicks
    /\ recordingDuration' = recordingDuration + 1
    /\ UNCHANGED <<isRecording, isProcessing, error, recordedBlob,
                   mediaRecorder, audioChunks, recordingTimer>>
    /\ UNCHANGED envVars

-----------------------------------------------------------------------------
(* uploadAndTranscribe, lines 96-156, and App's callback.                   *)

\* An error message is modelled by the set of the phrases it contains that
\* the catch block looks for (String.prototype.includes, lines 142-146).
Phrases == {"Failed to fetch", "File must be an audio file",
            "Transcription failed"}

\* How an upload can fail:
\*   transport : fetch rejects, TypeError "Failed to fetch" (line 114);
\*   status    : a non-success response whose JSON body has a detail (the
\*               phrases it contains are `detail`);
\*   nobody    : a non-success response whose body is no JSON, so detail is
\*               'Unknown error occurred' (line 120);
\*   nodetail  : a non-success response whose JSON has no detail, so the
\*               message is `HTTP <status>: <statusText>` (line 121);
\*   badbody   : a success response whose body is no JSON, so line 124
\*               throws a SyntaxError.
Failures ==
    {[kind |-> k, detail |-> {}] : k \in {"transport", "nobody", "nodetail",
                                          "badbody"}}
    \cup {[kind |-> "status", detail |-> d] : d \in SUBSET Phrases}

\* Lines 114-124: the phrases of the message of the Error that is thrown.
errorMessage(f) ==
    IF f.kind = "transport" THEN {"Failed to fetch"}
    ELSE IF f.kind = "status" THEN f.detail
    ELSE {}

\* Mutant of classify: the provider phrase is looked for first.
classifyProviderFirst(message) ==
    IF "Transcription failed" \in message THEN "Provider"
    ELSE IF "Failed to fetch" \in message THEN "Connectivity"
    ELSE IF "File must be an audio file" \in message THEN "InvalidFormat"
    ELSE "Generic"

\* Lines 140-150: the user-facing class of a failure message.
classify(message) ==
    IF "Failed to fetch" \in message THEN "Connectivity"
    ELSE IF "File must be an audio file" \in message THEN "InvalidFormat"
    ELSE IF "Transcription failed" \in message THEN "Provider"
    ELSE "Generic"

\* Mutant of handleTranscriptionComplete: the text is not copied.
handleTranscriptionCompleteNoText(prev, result) ==
    << [id |-> result.transcript_id, text |-> "null",
        status |-> result.status] >> \o prev

\* part_001 lines 34-50: the transcript list after the callback (created_at
\* and audio_url, which nothing reads back, are left out).
handleTranscriptionComplete(prev, result) ==
    << [id |-> result.transcript_id, text |-> result.text,
        status |-> result.status] >> \o prev

\* The records the Gateway may store for, and answer, a successful upload
\* with: the next identifier, the provider's text, status completed.
Results ==
    {[transcript_id |-> serverNextId, text |-> "text", status |-> "completed"]}

\* The Gateway's list, newest first: one stored record per identifier given.
StoredRecords ==
    [i \in 1 .. (serverNextId - 1) |->
        [id |-> serverNextId - i, text |-> "text", status |-> "completed"]]

\* The Gateway handles an upload request: it stores the record and answers.
gatewayUpload(result) ==
    /\ inFlight > Cardinality(responses)
    /\ serverNextId <= MaxUploads
    /\ serverNextId' = serverNextId + 1
    /\ responses' = responses \cup {result}
    /\ UNCHANGED compVars
    /\ UNCHANGED <<recState, liveStreams, liveTimers, pendingStarts,
                   stopQueue, inFlight, transcripts, fetchPhase, fetchData,
                   loading, appError>>

\* The Gateway handles the list request: it answers with what is stored.
gatewayList ==
    /\ fetchPhase = "sent"
    /\ fetchPhase' = "answered"
    /\ fetchData' = StoredRecords
    /\ UNCHANGED compVars
    /\ UNCHANGED <<recState, liveStreams, liveTimers, pendingStarts,
                   stopQueue, inFlight, transcripts, serverNextId, responses,
                   loading, appError>>

\* part_001 lines 19-22, 29-31: the list arrives and replaces the state.
fetchTranscriptsOk ==
    /\ fetchPhase = "answered"
    /\ fetchPhase' = "done"
    /\ transcripts' = fetchData                        \* part_001 line 22
    /\ fetchData' = << >>
    /\ loading' = FALSE                                \* part_001 line 30
    /\ UNCHANGED compVars
    /\ UNCHANGED <<recState, liveStreams, liveTimers, pendingStarts,
                   stopQueue, inFlight, serverNextId, responses, appError>>

\* part_001 lines 23-31: the list request is answered with a non-success
\* status (threw = FALSE), or fetch or response.json() throws (threw = TRUE).
fetchTranscriptsFailed(threw) ==
    /\ fetchPhase \in {"sent", "answered"}
    /\ fetchPhase' = "done"
    /\ fetchData' = << >>
    /\ appError' = IF threw THEN "Failed to load transcripts" ELSE appError
    /\ loading' = FALSE                                \* part_001 line 30
    /\ UNCHANGED compVars
    /\ UNCHANGED <<recState, liveStreams, liveTimers, pendingStarts,
                   stopQueue, inFlight, transcripts, serverNextId, responses>>

\* part_001 line 86: the Alert, shown while App's error is set, is closed.
closeAppError ==
    /\ appError # "null"
    /\ appError' = "null"
    /\ UNCHANGED compVars
    /\ UNCHANGED <<recState, liveStreams, liveTimers, pendingStarts,
                   stopQueue, inFlight, transcripts, serverNextId, responses,
                   fetchPhase, fetchData, loading>>

\* Lines 96-117: the call, up to `await fetch(...)`; the request carries the
\* blob (lines 109-111).  Nothing the call does after the await reads the
\* request, so the requests in flight are counted.
uploadAndTranscribe ==
    /\ IF ~recordedBlob.present                                  \* line 97
       THEN /\ error' = "NoRecording"                            \* line 98
            /\ UNCHANGED <<isProcessing, inFlight>>
       ELSE /\ inFlight < MaxInFlight
            /\ isProcessing' = TRUE                              \* line 102
            /\ error' = "null"                                   \* line 103
            /\ inFlight' = inFlight + 1                          \* line 114
    /\ UNCHANGED <<isRecording, recordedBlob, recordingDuration,
                   mediaRecorder, audioChunks, recordingTimer>>
    /\ UNCHANGED <<recState, liveStreams, liveTimers, pendingStarts,
                   stopQueue, transcripts, serverNextId>>
    /\ UNCHANGED appVars

\* Mutant of uploadSucceeded: the buffer is not cleared after the callback.
uploadSucceededKeepsBuffer(result) ==
    /\ inFlight > 0
    /\ result \in responses
    /\ responses' = responses \ {result}
    /\ inFlight' = inFlight - 1
    /\ transcripts' = handleTranscriptionComplete(transcripts, result)
    /\ appError' = "null"
    /\ isProcessing' = FALSE
    /\ UNCHANGED <<isRecording, error, recordedBlob, recordingDuration,
                   mediaRecorder, audioChunks, recordingTimer>>
    /\ UNCHANGED <<recState, liveStreams, liveTimers, pendingStarts,
                   stopQueue, serverNextId, fetchPhase, fetchData, loading>>

\* Lines 124-134 and 153-155: a request is answered with a parsed record.
uploadSucceeded(result) ==
    /\ inFlight > 0
    /\ result \in responses
    /\ responses' = responses \ {result}
    /\ inFlight' = inFlight - 1
    /\ transcripts' = handleTranscriptionComplete(transcripts, result)
    /\ appError' = "null"                             \* part_001 line 49
    /\ recordedBlob' = NullBlob                                  \* line 133
    /\ recordingDuration' = 0                                    \* line 134
    /\ isProcessing' = FALSE                                     \* line 154
    /\ UNCHANGED <<isRecording, error, mediaRecorder, audioChunks,
                   recordingTimer>>
    /\ UNCHANGED <<recState, liveStreams, liveTimers, pendingStarts,
                   stopQueue, serverNextId, fetchPhase, fetchData, loading>>

\* Mutant of uploadFailed: the failed request is sent again.
uploadFailedRetries(f) ==
    /\ inFlight > Cardinality(responses)
    /\ error' = classify(errorMessage(f))
    /\ UNCHANGED <<isRecording, isProcessing, recordedBlob, recordingDuration,
                   mediaRecorder, audioChunks, recordingTimer>>
    /\ UNCHANGED <<recState, liveStreams, liveTimers, pendingStarts,
                   stopQueue, inFlight, transcripts, serverNextId>>
    /\ UNCHANGED appVars

\* Mutant of uploadFailed: isProcessing is not reset (no finally block).
uploadFailedKeepsProcessing(f) ==
    /\ inFlight > Cardinality(responses)
    /\ inFlight' = inFlight - 1
    /\ error' = classify(errorMessage(f))
    /\ UNCHANGED <<isRecording, isProcessing, recordedBlob, recordingDuration,
                   mediaRecorder, audioChunks, recordingTimer>>
    /\ UNCHANGED <<recState, liveStreams, liveTimers, pendingStarts,
                   stopQueue, transcripts, serverNextId>>
    /\ UNCHANGED appVars

\* Lines 119-122, 136-155: a request the Gateway has not answered with a
\* stored record fails with failure f.
uploadFailed(f) ==
    /\ inFlight > Cardinality(responses)
    /\ inFlight' = inFlight - 1
    /\ error' = classify(errorMessage(f))                        \* line 152
    /\ isProcessing' = FALSE                                     \* line 154
    /\ UNCHANGED <<isRecording, recordedBlob, recordingDuration,
                   mediaRecorder, audioChunks, recordingTimer>>
    /\ UNCHANGED <<recState, liveStreams, liveTimers, pendingStarts,
                   stopQueue, transcripts, serverNextId>>
    /\ UNCHANGED appVars

-----------------------------------------------------------------------------
(* discardRecording, lines 158-162, and handleCloseError, lines 170-172.    *)

\* Mutant of discardRecording: the blob is not cleared.
discardRecordingKeepsBlob ==
    /\ recordingDuration' = 0
    /\ error' = "null"
    /\ UNCHANGED <<isRecording, isProcessing, recordedBlob, mediaRecorder,
                   audioChunks, recordingTimer>>
    /\ UNCHANGED envVars

\* Mutant of discardRecording: the duration is not reset.
discardRecordingKeepsDuration ==
    /\ recordedBlob' = NullBlob
    /\ error' = "null"
    /\ UNCHANGED <<isRecording, isProcessing, recordingDuration,
                   mediaRecorder, audioChunks, recordingTimer>>
    /\ UNCHANGED envVars

discardRecording ==
    /\ recordedBlob' = NullBlob
    /\ recordingDuration' = 0
    /\ error' = "null"
    /\ UNCHANGED <<isRecording, isProcessing, mediaRecorder, audioChunks,
                   recordingTimer>>
    /\ UNCHANGED envVars

\* The Snackbar is open, and can be closed, only while error is set.
handleCloseError ==
    /\ error # "null"
    /\ error' = "null"
    /\ UNCHANGED <<isRecording, isProcessing, recordedBlob, recordingDuration,
                   mediaRecorder, audioChunks, recordingTimer>>
    /\ UNCHANGED envVars

-----------------------------------------------------------------------------
(* The steps of the system.  Each sets the history variables: lastAct names *)
(* the operation; discardedClean is set by discard() and reset when a       *)
(* recording starts or is finalized; lastRequest is set when a request is   *)
(* sent and forgotten when none is left in flight; lastFailure is set by    *)
(* the step that delivers a failure and forgotten by the next step.         *)

Hist(act, clean) ==
    /\ lastAct' = act
    /\ discardedClean' = clean
    /\ lastRequest' = IF inFlight' > inFlight
                      THEN [body |-> recordedBlob.data,
                            dur |-> recordingDuration]
                      ELSE IF inFlight' = 0 THEN NoRequest
                      ELSE lastRequest
    /\ IF act = "uploadFailed" THEN lastFailure' \in Failures
                               ELSE lastFailure' = NoFailure

\* Steps of the browser and the network, the same under both specifications.
Granted == startRecordingGranted /\ Hist("granted", FALSE)

\* lastAct names the rejection by the name of the error it threw.
Rejected == \E name \in StartErrorNames :
                startRecordingRejected(name) /\ Hist(name, discardedClean)

StopEvent == \E r \in Sessions, size \in ChunkSizes :
                onstop(r, size) /\ Hist("onstop", FALSE)

Tick == \E t \in Sessions : timerTick(t) /\ Hist("tick", discardedClean)

GatewayUpload == \E result \in Results :
                gatewayUpload(result) /\ Hist("gatewayUpload", discardedClean)

UploadOk == \E result \in responses :
                uploadSucceeded(result) /\ Hist("uploadOk", discardedClean)

GatewayList == gatewayList /\ Hist("gatewayList", discardedClean)

FetchOk == fetchTranscriptsOk /\ Hist("fetchOk", discardedClean)

FetchFail == \E threw \in BOOLEAN :
                fetchTranscriptsFailed(threw) /\ Hist("fetchFailed", discardedClean)

CloseAppError == closeAppError /\ Hist("closeAppError", discardedClean)

UploadFail == \E f \in Failures :
                /\ uploadFailed(f)
                /\ lastFailure' = f
                /\ Hist("uploadFailed", discardedClean)

CloseError == handleCloseError /\ Hist("closeError", discardedClean)

Environment ==
    \/ Granted
    \/ Rejected
    \/ StopEvent
    \/ Tick
    \/ UploadOk
    \/ UploadFail
    \/ CloseError
    \/ GatewayUpload
    \/ GatewayList
    \/ FetchOk
    \/ FetchFail
    \/ CloseAppError

\* The user clicks a button that is rendered and enabled (lines 178-209).
ClickStart == StartButton /\ startRecording /\ Hist("start", discardedClean)

ClickStop == StopButton /\ stopRecording /\ Hist("stop", discardedClean)

ClickTranscribe ==
    TranscribeButton /\ uploadAndTranscribe /\ Hist("upload", discardedClean)

ClickDiscard == DiscardButton /\ discardRecording /\ Hist("discard", TRUE)

Next ==
    \/ ClickStart
    \/ ClickStop
    \/ ClickTranscribe
    \/ ClickDiscard
    \/ Environment

Spec == Init /\ [][Next]_vars

\* The component's operations (start, stop, discard, upload) called as its
\* contract states them, whatever is rendered, by a caller that calls them
\* in any order and lets each one finish (the getUserMedia promise settle,
\* the recorder's stop task run, the upload be answered) before the next.
Quiescent == pendingStarts = 0 /\ stopQueue = << >> /\ inFlight = 0

CallStart == Quiescent /\ startRecording /\ Hist("start", discardedClean)

CallStop == Quiescent /\ stopRecording /\ Hist("stop", discardedClean)

CallUpload ==
    Quiescent /\ uploadAndTranscribe /\ Hist("upload", discardedClean)

CallDiscard == Quiescent /\ discardRecording /\ Hist("discard", TRUE)

NextAPI ==
    \/ CallStart
    \/ CallStop
    \/ CallUpload
    \/ CallDiscard
    \/ Environment

SpecAPI == Init /\ [][NextAPI]_vars

\* The same caller with the network's guarantee that a request sent is
\* settled: the promise of fetch (line 114) resolves or rejects, and the
\* continuation of uploadAndTranscribe then runs.
SpecAPILive == SpecAPI /\ WF_vars(UploadOk \/ UploadFail)

-----------------------------------------------------------------------------
(* The claims.                                                              *)

\* A recording is in progress: the current MediaRecorder is recording.
RecordingInProgress ==
    mediaRecorder # 0 /\ recState[mediaRecorder] = "recording"

\* The recorder's observable state.
Obs ==
    IF isRecording THEN "recording"
    ELSE IF recordedBlob.present THEN "stopped"
    ELSE "idle"

\* A stop has been finalized: not recording and no stop task is queued.
StopFinalized == ~isRecording /\ stopQueue = << >>

\* C1: a start() that gets its stream while a recording is already in
\* progress is rejected: the chunk buffer is not reset, the MediaRecorder is
\* not replaced, and no second stream and no second timer is created.
C1_StartWhileRecordingRejected ==
    [][(lastAct' = "granted" /\ RecordingInProgress)
         => /\ audioChunks' = audioChunks
            /\ mediaRecorder' = mediaRecorder
            /\ liveStreams' = liveStreams
            /\ liveTimers' = liveTimers]_vars

\* C2: at every moment at most one upload request is in flight.
C2_AtMostOneUploadInFlight == inFlight <= 1

\* C2 witness: the upload of a non-empty recording has been sent and is in
\* flight, with the blob still buffered.
C2_Witness ==
    /\ inFlight = 1 /\ isProcessing /\ lastAct = "upload"
    /\ recordedBlob.present /\ recordedBlob.data # << >>
    /\ lastRequest.body = recordedBlob.data

\* C3: while an upload is in flight no recording begins, none is stopped,
\* and the buffered blob is not discarded or replaced; only the upload's own
\* completion changes them.
C3_NoConflictWhileProcessing ==
    [][(isProcessing /\ lastAct' \notin {"uploadOk", "uploadFailed"})
         => /\ isRecording' = isRecording
            /\ recordedBlob' = recordedBlob
            /\ recState' = recState]_vars

\* C4: when an upload fails, the blob and the duration are as they were when
\* the upload was requested, the callback has not been invoked, and the
\* upload action is enabled again.
C4_FailureKeepsBuffer ==
    [][lastAct' = "uploadFailed"
         => /\ recordedBlob' = Blob(lastRequest.body)
            /\ recordingDuration' = lastRequest.dur
            /\ transcripts' = transcripts
            /\ TranscribeButton']_vars

\* C5: the observable state only moves idle -> recording -> stopped -> idle;
\* recording is followed by stopped, never by idle, and stopped is left only
\* by a successful upload or a discard.
C5_StateMachine ==
    [][/\ Obs = "idle" => Obs' \in {"idle", "recording"}
       /\ Obs = "recording" => Obs' \in {"recording", "stopped"}
       /\ Obs = "stopped" =>
            \/ Obs' = "stopped"
            \/ Obs' = "idle" /\ lastAct' \in {"uploadOk", "discard"}]_vars

\* C6: upload() with nothing buffered or with an empty blob fails with
\* NoRecording and sends no request.
C6_NoUsableRecording ==
    [][(lastAct' = "upload"
           /\ (~recordedBlob.present \/ recordedBlob.data = << >>))
         => error' = "NoRecording" /\ inFlight' = inFlight]_vars

\* C7: after discard(), an upload() with no recording started or finalized
\* in between fails with NoRecording: the error is set, isProcessing stays
\* false and no request is sent.
C7_UploadAfterDiscard ==
    [][(lastAct' = "upload" /\ discardedClean)
         => /\ error' = "NoRecording"
            /\ ~isProcessing /\ ~isProcessing'
            /\ inFlight' = inFlight]_vars

\* C7 witness: a recording was made, finalized and discarded, and the
\* upload() that followed has failed with NoRecording.
C7_Witness ==
    /\ lastAct = "upload" /\ discardedClean
    /\ error = "NoRecording" /\ inFlight = 0 /\ ~isProcessing
    /\ ~isRecording /\ recState[1] = "inactive"

\* C8: once a recorder's stop event is delivered, isRecording is false and
\* the blob built from that session's chunks is buffered; the blob stays
\* buffered until upload success, discard or a new start.
C8_StopLeavesStopped ==
    [][/\ lastAct' = "onstop" =>
            /\ ~isRecording'
            /\ recordedBlob'.present
            /\ \A i \in DOMAIN recordedBlob'.data :
                   recordedBlob'.data[i].sess = Head(stopQueue)
       /\ (recordedBlob.present /\ recordedBlob' # recordedBlob) =>
            lastAct' \in {"uploadOk", "discard", "granted"}]_vars

\* C9: once stop() has been finalized, no microphone stream the component
\* opened is still live.
C9_StreamsReleased == StopFinalized => liveStreams = {}

\* C10: the duration is reset to 0 at start, a tick adds exactly one, and
\* after stop() is finalized no interval timer is running, so the duration
\* of a stopped recording changes only by discard, upload success or start.
C10_DurationCounter ==
    [][/\ lastAct' = "granted" => recordingDuration' = 0
       /\ lastAct' = "tick" => recordingDuration' = recordingDuration + 1
       /\ StopFinalized => liveTimers = {}
       /\ (StopFinalized /\ recordingDuration' # recordingDuration) =>
            lastAct' \in {"discard", "uploadOk", "granted"}]_vars

\* C12: when getUserMedia rejects a start() with NotAllowedError or
\* NotFoundError, the matching error (PermissionDenied, DeviceNotFound) is
\* set and nothing else changes: no recorder, stream or timer is created,
\* the blob and the duration are kept, and no request is sent.
C12_RejectedStartChangesNothing ==
    [][(lastAct' \in {"NotAllowedError", "NotFoundError"})
         => /\ error' = (IF lastAct' = "NotAllowedError"
                         THEN "PermissionDenied" ELSE "DeviceNotFound")
            /\ UNCHANGED <<isRecording, isProcessing, recordedBlob,
                           recordingDuration, mediaRecorder, audioChunks,
                           recordingTimer, recState, liveStreams, liveTimers,
                           stopQueue, inFlight, transcripts>>]_vars

\* C12 witness: a start() issued while a recording was buffered has been
\* rejected for a missing device, and the blob and its duration are still
\* there.
C12_Witness ==
    /\ lastAct = "NotFoundError" /\ error = "DeviceNotFound"
    /\ recordedBlob.present /\ recordingDuration > 0 /\ ~isRecording

\* The transcript a record of the Gateway becomes in App's list.
AsTranscript(result) ==
    [id |-> result.transcript_id, text |-> result.text,
     status |-> result.status]

\* C11: when an upload succeeds, the parsed response is forwarded to the
\* callback exactly once (App's list gains that one record, at its head),
\* and afterwards the blob is absent, the duration is 0 and isProcessing is
\* false.
C11_SuccessForwardsAndClears ==
    [][lastAct' = "uploadOk"
         => /\ \E result \in responses :
                  /\ responses' = responses \ {result}
                  /\ transcripts' = << AsTranscript(result) >> \o transcripts
            /\ ~recordedBlob'.present
            /\ recordingDuration' = 0
            /\ ~isProcessing']_vars

\* C11 witness: the upload of a buffered recording with a duration has
\* succeeded: its record is in the list and the buffer is clear.
C11_Witness ==
    /\ lastAct = "uploadOk"
    /\ Len(transcripts) = 1 /\ transcripts[1].id = 1
    /\ ~recordedBlob.present /\ recordingDuration = 0 /\ ~isProcessing
    /\ inFlight = 0 /\ ~isRecording

\* A record as the data model allows it: completed with a text, or error
\* with no text ("null").
ValidRecord(t) ==
    \/ t.status = "completed" /\ t.text # "null"
    \/ t.status = "error" /\ t.text = "null"

C14_DiscardFrame ==
    [][lastAct' = "discard"
         => /\ ~recordedBlob'.present
            /\ recordingDuration' = 0
            /\ error' = "null"
            /\ UNCHANGED <<inFlight, responses, fetchPhase>>
            /\ UNCHANGED <<isRecording, isProcessing, transcripts>>]_vars

\* C14 witness: a recording with audio and a duration was buffered and has
\* just been discarded while transcripts are listed.
C14_Witness ==
    /\ lastAct = "discard" /\ audioChunks # << >>
    /\ ~recordedBlob.present /\ recordingDuration = 0 /\ error = "null"
    /\ transcripts # << >>

\* C15: stopRecording called while the MediaRecorder is absent or inactive
\* is a no-op: isRecording, the blob, the duration, the timer and the chunk
\* buffer are unchanged and no stop event is queued.
C15_StopIsNoOpWhenNotRecording ==
    [][(lastAct' = "stop" /\ ~RecordingInProgress)
         => UNCHANGED <<isRecording, recordedBlob, recordingDuration,
                        recordingTimer, liveTimers, audioChunks, stopQueue,
                        recState>>]_vars

\* C15 witness: stop() has been called on a recorder that was already
\* stopped and finalized; its blob is still buffered and nothing is queued.
C15_Witness ==
    /\ lastAct = "stop"
    /\ mediaRecorder # 0 /\ recState[mediaRecorder] = "inactive"
    /\ stopQueue = << >> /\ recordedBlob.present /\ ~isRecording

\* C16: nothing is retried automatically: an upload action with a blob
\* sends exactly one request, no other step sends one, and a failed upload
\* leaves one request fewer in flight.
C16_NoAutomaticRetry ==
    [][/\ (lastAct' = "upload" /\ recordedBlob.present) =>
            inFlight' = inFlight + 1
       /\ lastAct' # "upload" => inFlight' <= inFlight
       /\ lastAct' = "uploadFailed" => inFlight' = inFlight - 1]_vars

\* C16 witness: an upload has failed; the blob is still buffered, nothing is
\* in flight, and the upload action is offered again.
C16_Witness ==
    /\ lastAct = "uploadFailed" /\ inFlight = 0 /\ responses = {}
    /\ recordedBlob.present /\ TranscribeButton /\ error = "Connectivity"

\* C17: the blob produced when a session stops consists of exactly the
\* non-empty chunks delivered during that session, in delivery order: the
\* data the stopping recorder delivers if it is not empty, and nothing else.
C17_BlobIsSessionChunks ==
    [][lastAct' = "onstop"
         => \E size \in ChunkSizes :
              /\ audioChunks' =
                   ondataavailable(audioChunks, Chunk(Head(stopQueue), size))
              /\ recordedBlob'.data =
                   ondataavailable(<< >>, Chunk(Head(stopQueue), size))]_vars

\* C18: the recorder is never both recording and holding a buffered blob.
C18_NeverRecordingWithBlob == ~(isRecording /\ recordedBlob.present)

\* The identifiers in a transcript list.
Ids(list) == {list[i].id : i \in DOMAIN list}

\* C19: after a successful upload the returned record is at the head of
\* App's list, and a record in the list stays in it.
C19_UploadedRecordStays ==
    [][/\ lastAct' = "uploadOk" =>
            \E result \in responses :
                Head(transcripts') = AsTranscript(result)
       /\ Ids(transcripts) \subseteq Ids(transcripts')]_vars

\* C20: App's list never holds two entries with the same identifier.
C20_NoDuplicateIds ==
    \A i, j \in DOMAIN transcripts :
        transcripts[i].id = transcripts[j].id => i = j

\* C21: isProcessing is true exactly while an upload request is in flight,
\* and every upload that was started ends with isProcessing false once its
\* response or its failure is delivered.
C21_ProcessingWhileInFlight ==
    /\ [](isProcessing <=> inFlight > 0)
    /\ [](isProcessing => <>(~isProcessing))
    /\ [][lastAct' \in {"uploadOk", "uploadFailed"} => ~isProcessing']_vars

\* C21 witness: an upload was started and has ended on a failure other than
\* a transport failure; isProcessing is false and nothing is in flight.
C21_Witness ==
    /\ lastAct = "uploadFailed" /\ error \in {"Generic", "Provider"}
    /\ ~isProcessing /\ inFlight = 0

\* The classes in the order the claim gives them, each with its phrase.
ClassOrder ==
    << [phrase |-> "Failed to fetch", class |-> "Connectivity"],
       [phrase |-> "File must be an audio file", class |-> "InvalidFormat"],
       [phrase |-> "Transcription failed", class |-> "Provider"] >>

\* The class of the first phrase, in that order, that the message contains;
\* generic if it contains none.
FirstMatch(message) ==
    LET hits == {i \in DOMAIN ClassOrder : ClassOrder[i].phrase \in message}
    IN  IF hits = {} THEN "Generic"
        ELSE ClassOrder[CHOOSE i \in hits : \A j \in hits : i <= j].class

\* C22: every upload failure is shown as exactly one of the four classes,
\* the first, in the order connectivity, invalid format, provider, whose
\* phrase the failure message contains, otherwise generic; a non-success
\* response with no readable detail is shown as generic.
C22_FailureClassified ==
    lastAct = "uploadFailed"
      => /\ error \in {"Connectivity", "InvalidFormat", "Provider", "Generic"}
         /\ error = FirstMatch(errorMessage(lastFailure))
         /\ lastFailure.kind \in {"nobody", "nodetail"} => error = "Generic"

\* C22 witness: a non-success response whose detail contains both the
\* invalid-format and the provider phrase was delivered and is shown as
\* invalid format.
C22_Witness ==
    /\ lastAct = "uploadFailed"
    /\ lastFailure = [kind |-> "status",
                      detail |-> {"File must be an audio file",
                                  "Transcription failed"}]
    /\ error = "InvalidFormat"

=============================================================================
